---- MODULE Spec2Model ----
(***************************************************************************)
(* Model of autobuild's `push` command (cmd/push.go, runPush) and of the   *)
(* state package's LoadState / ValidTPath / Changed (state/state.go).      *)
(*                                                                         *)
(* A snapshot (state.State) is modelled by its Packages() sequence; the    *)
(* name index NameToSrcIdx() and the dependency graph DepGraph() are       *)
(* derived from it.  Go slices are 0-based: position idx of a snapshot s   *)
(* is s[idx + 1] here, and every Idx / OldIdx below is the Go index.       *)
(***************************************************************************)
EXTENDS Integers, Sequences, FiniteSets, TLC

(* ---------------------------- bounds ------------------------------------ *)
\* longest snapshot (number of packages) the loaders return
MaxPkgs == 2
\* longest tpath, counted in chunks (see Chunks)
MaxLen == 3

(* ------------------------- input domains -------------------------------- *)
Names == <<"a", "b", "c">>
\* a build dependency that no snapshot provides
ExtDep == "ext"
Releases == {0, 1, 2}
Versions == {"1.0", "1.1"}

(* ------------------------- small helpers -------------------------------- *)
Range(s) == {s[i] : i \in 1..Len(s)}

IsPrefix(s, t) == Len(s) <= Len(t) /\ \A i \in 1..Len(s) : s[i] = t[i]

NoDup(s) == \A i, j \in 1..Len(s) : s[i] = s[j] => i = j

\* all sequences over S of length exactly n / at most n
RECURSIVE SeqsOfLen(_, _)
SeqsOfLen(S, n) ==
    IF n = 0 THEN {<<>>}
    ELSE {Append(s, x) : s \in SeqsOfLen(S, n - 1), x \in S}

SeqsUpTo(S, n) == UNION {SeqsOfLen(S, k) : k \in 0..n}

(* ------------------ state.State, common.Package ------------------------- *)
Pkg(name, ver, rel, deps) ==
    [Name |-> name, Version |-> ver, Release |-> rel, BuildDeps |-> deps]

\* s.Packages()[idx]
PkgAt(s, idx) == s[idx + 1]

\* _, ok := s.NameToSrcIdx()[name]
PackageExists(s, name) == \E i \in 1..Len(s) : s[i].Name = name

\* s.NameToSrcIdx()[name]; the zero value 0 when the name is absent
GetPackageIdx(s, name) ==
    IF PackageExists(s, name)
    THEN (CHOOSE i \in 1..Len(s) : s[i].Name = name) - 1
    ELSE 0

(* ---------------------------- state.Diff -------------------------------- *)
\* Diff literal of a package with no namesake in old: the old-side fields
\* are not set and keep Go's zero values.
NewDiff(idx, pkg) ==
    [Idx |-> idx, OldIdx |-> 0, RelNum |-> pkg.Release, OldRelNum |-> 0,
     Ver |-> pkg.Version, OldVer |-> ""]

MatchedDiff(idx, pkg, oldIdx, oldPkg) ==
    [Idx |-> idx, OldIdx |-> oldIdx, RelNum |-> pkg.Release,
     OldRelNum |-> oldPkg.Release, Ver |-> pkg.Version,
     OldVer |-> oldPkg.Version]

\* Emits with "and" for "or"
EmitsBroken(oldPkg, pkg) ==
    oldPkg.Release # pkg.Release /\ oldPkg.Version # pkg.Version

\* the condition under which Changed emits a Diff for a matched package
Emits(oldPkg, pkg) ==
    oldPkg.Release # pkg.Release \/ oldPkg.Version # pkg.Version

\* ChangedAt that appends nothing for a package with no namesake in old
ChangedAtSkipNew(old, cur, idx) ==
    LET pkg == PkgAt(cur, idx) IN
    IF ~PackageExists(old, pkg.Name)
    THEN <<>>
    ELSE LET oldIdx == GetPackageIdx(old, pkg.Name)
             oldPkg == PkgAt(old, oldIdx)
         IN IF Emits(oldPkg, pkg)
            THEN <<MatchedDiff(idx, pkg, oldIdx, oldPkg)>>
            ELSE <<>>

\* one iteration of Changed's loop: the Diffs appended for position idx
ChangedAt(old, cur, idx) ==
    LET pkg == PkgAt(cur, idx) IN
    IF ~PackageExists(old, pkg.Name)
    THEN <<NewDiff(idx, pkg)>>
    ELSE LET oldIdx == GetPackageIdx(old, pkg.Name)
             oldPkg == PkgAt(old, oldIdx)
         IN IF Emits(oldPkg, pkg)
            THEN <<MatchedDiff(idx, pkg, oldIdx, oldPkg)>>
            ELSE <<>>

RECURSIVE ChangedUpTo(_, _, _)
ChangedUpTo(old, cur, n) ==
    IF n = 0 THEN <<>>
    ELSE ChangedUpTo(old, cur, n - 1) \o ChangedAt(old, cur, n - 1)

Changed(old, cur) == ChangedUpTo(old, cur, Len(cur))

\* classification predicates of a Diff
IsNewRel(d) == d.RelNum > d.OldRelNum
IsSameRel(d) == d.RelNum = d.OldRelNum
IsSame(d) == d.RelNum = d.OldRelNum /\ d.Ver = d.OldVer
IsDowngrade(d) == d.RelNum < d.OldRelNum

(* ------------------- runPush: classification loop ----------------------- *)
\* the branch of the if / else-if chain a Diff takes
BranchOf(d) ==
    IF IsNewRel(d) THEN "bumped"
    ELSE IF IsSameRel(d) /\ ~IsSame(d) THEN "bad"
    ELSE IF IsDowngrade(d) THEN "outdated"
    ELSE "none"

\* the positions (in new) appended to one of the three lists, in loop order
RECURSIVE ListOf(_, _)
ListOf(chs, branch) ==
    IF chs = <<>> THEN <<>>
    ELSE LET d == chs[Len(chs)]
             init == ListOf(SubSeq(chs, 1, Len(chs) - 1), branch)
         IN IF BranchOf(d) = branch THEN Append(init, d.Idx) ELSE init

\* bset: the positions marked true
BsetOf(chs) == {chs[i].Idx : i \in {j \in 1..Len(chs) : BranchOf(chs[j]) = "bumped"}}

(* ------------------- common.Package.Resolve ----------------------------- *)
\* the dependency names of pkg that are no package of s, in declaration order
MissingDeps(s, pkg) ==
    SelectSeq(pkg.BuildDeps, LAMBDA dep : ~PackageExists(s, dep))

Resolve(s, pkg) == \A i \in 1..Len(pkg.BuildDeps) : PackageExists(s, pkg.BuildDeps[i])

\* Unresolved that stops at the first package that fails to resolve
UnresolvedFirstOnly(s, bmp) ==
    LET all == SelectSeq(bmp, LAMBDA idx : ~Resolve(s, PkgAt(s, idx)))
    IN IF all = <<>> THEN <<>> ELSE <<all[1]>>

\* the bumped packages that fail to resolve, in bumped order

Unresolved(s, bmp) == SelectSeq(bmp, LAMBDA idx : ~Resolve(s, PkgAt(s, idx)))

(* ------------------------------ graphs ---------------------------------- *)
\* a graph is [nodes, edges]; an edge <<u, v>> reads "u depends on v"
Graph(nodes, edges) == [nodes |-> nodes, edges |-> edges]

\* s.DepGraph(): one node per position, an edge to every build dependency
\* that resolves in the same snapshot
DepGraph(s) ==
    Graph({i - 1 : i \in 1..Len(s)},
          UNION {{<<i - 1, GetPackageIdx(s, s[i].BuildDeps[k])>> :
                      k \in {j \in 1..Len(s[i].BuildDeps) :
                                PackageExists(s, s[i].BuildDeps[j])}} :
                 i \in 1..Len(s)})

\* utils.LiftGraph(g, choose): the subgraph induced by the chosen nodes
LiftGraph(g, chosen) ==
    Graph({n \in g.nodes : n \in chosen},
          {e \in g.edges : e[1] \in chosen /\ e[2] \in chosen})

\* graph.TopologicalSort by Kahn's algorithm: a node is emitted once all
\* the nodes it depends on are emitted; which ready node comes next is not
\* determined.  The set of complete orders that extend `done`; empty when
\* the algorithm gets stuck, which is the sort's error.
Ready(g, done) ==
    {n \in g.nodes \ Range(done) :
        \A e \in g.edges : e[1] = n => e[2] \in Range(done)}

RECURSIVE Kahn(_, _)
Kahn(g, done) ==
    IF Range(done) = g.nodes THEN {done}
    ELSE UNION {Kahn(g, Append(done, n)) : n \in Ready(g, done)}

TopologicalSort(g) == Kahn(g, <<>>)

\* the nodes reachable from the nodes of S along edges (S included)
RECURSIVE Closure(_, _)
Closure(g, S) ==
    LET T == S \cup {e[2] : e \in {f \in g.edges : f[1] \in S}}
    IN IF T = S THEN S ELSE Closure(g, T)

\* graph.StronglyConnectedComponents
StronglyConnectedComponents(g) ==
    {{v \in g.nodes : v \in Closure(g, {u}) /\ u \in Closure(g, {v})} :
        u \in g.nodes}

\* ReportedCycles without the skip of components of size <= 1
ReportedCyclesAll(s, g) ==
    {{PkgAt(s, n).Name : n \in c} : c \in StronglyConnectedComponents(g)}

\* runPush's cycle report: the components it prints, as sets of names

ReportedCycles(s, g) ==
    {{PkgAt(s, n).Name : n \in c} :
        c \in {d \in StronglyConnectedComponents(g) : ~(Cardinality(d) <= 1)}}

(* ------------------- state.ValidTPath, state.LoadState ------------------ *)
\* A tpath is modelled as a sequence of chunks, each standing for the
\* substring it spells; ":" is the separator, "x" any text that is neither
\* a separator nor a kind.  No chunk is a prefix of another, so distinct
\* sequences are distinct strings.
Chunks == {"src", "bin", "repo", "x", ":"}

TPaths == SeqsUpTo(Chunks, MaxLen)

\* strings.Split(s, ":"): the fields between the separators; one field
\* more than there are separators, empty fields included
RECURSIVE Split(_)
Split(s) ==
    IF \A i \in 1..Len(s) : s[i] # ":"
    THEN <<s>>
    ELSE LET i == CHOOSE k \in 1..Len(s) :
                    s[k] = ":" /\ \A j \in 1..(k - 1) : s[j] # ":"
         IN <<SubSeq(s, 1, i - 1)>> \o Split(SubSeq(s, i + 1, Len(s)))

Kinds == {<<"src">>, <<"bin">>, <<"repo">>}

\* ValidTPath without the check of the number of fields
ValidTPathAnySuffix(tp) ==
    LET splitted == Split(tp) IN splitted[1] \in Kinds

\* splitted[0], splitted[1] of the source are splitted[1], splitted[2] here

ValidTPath(tp) ==
    LET splitted == Split(tp)
    IN IF Len(splitted) > 2 THEN FALSE ELSE splitted[1] \in Kinds

\* the loader LoadState's if / else-if chain selects
LoaderOf(kind) ==
    IF kind = <<"src">> THEN "LoadSource"
    ELSE IF kind = <<"bin">> THEN "LoadBinary"
    ELSE "LoadEopkgRepo"

(* ------------------------------ state ----------------------------------- *)
VARIABLES
    old, new,        \* oldState, newState: the two loaded snapshots
    force, dryRun,   \* the --force and --dry-run flags as read by runPush
    pc,              \* runPush's position
    changes,         \* state.Changed(&oldState, &newState)
    bumped, bad, outdated,  \* the three lists, as positions in new
    bset,            \* the rebuild set
    lifted,          \* the lifted graph
    order,           \* the build order
    log,             \* what waterlog has printed: a sequence of <<kind, payload>>
    calls,           \* the packages push.Publish was called with, in call order
    published,       \* the packages whose Publish call returned a job
    failedAt,        \* the number of the Publish call that failed, 0 if none
    exitCode,        \* the process exit status, -1 while running
    exitAt,          \* the place runPush left at
    tpath,           \* LoadState's argument
    lpc,             \* LoadState's position
    loaderCalls,     \* the loaders called, as <<loader, path>>
    loadResult       \* what LoadState returned

pushVars == <<old, new, force, dryRun, pc, changes, bumped, bad, outdated, bset,
              lifted, order, log, calls, published, failedAt, exitCode, exitAt>>
loadVars == <<tpath, lpc, loaderCalls, loadResult>>
vars == <<pushVars, loadVars>>

EmptyGraph == Graph({}, {})

(* ------------------------- input snapshots ------------------------------ *)
\* at most one build dependency per package, drawn from S
DepLists(S) == {<<>>} \cup {<<d>> : d \in S}

\* snapshots whose packages are named Names[1..n] in this order, each with
\* a <<release, version>> of attrs and a dependency list of deps
RECURSIVE SnapshotsOfLen(_, _, _)
SnapshotsOfLen(n, attrs, deps) ==
    IF n = 0 THEN {<<>>}
    ELSE {Append(s, Pkg(Names[n], a[2], a[1], d)) :
            s \in SnapshotsOfLen(n - 1, attrs, deps), a \in attrs, d \in deps}

NamesUpTo(n) == {Names[i] : i \in 1..n}

\* the subsequences of s (some packages removed, order kept)
RECURSIVE SubSnapshots(_)
SubSnapshots(s) ==
    IF s = <<>> THEN {<<>>}
    ELSE LET rest == SubSnapshots(SubSeq(s, 1, Len(s) - 1))
         IN rest \cup {Append(r, s[Len(s)]) : r \in rest}

Reverse(s) == [i \in 1..Len(s) |-> s[Len(s) + 1 - i]]

\* old snapshots of push: any subset of the names, each package at
\* release 1, version 1.0
OldSnapshots ==
    UNION {SubSnapshots(s) : s \in SnapshotsOfLen(MaxPkgs, {<<1, "1.0">>}, {<<>>})}

\* new snapshots of push: against the old package, a lower release, the
\* same release and version, the same release with another version, and a
\* higher release; the dependency is any package of the snapshot (the
\* package itself included) or a name no snapshot has
NewSnapshots ==
    UNION {SnapshotsOfLen(n, {<<0, "1.0">>, <<1, "1.0">>, <<1, "1.1">>, <<2, "1.1">>},
                          DepLists(NamesUpTo(n) \cup {ExtDep})) : n \in 0..MaxPkgs}

\* snapshots of the diff specification: every release and version on both
\* sides, no dependencies; old in name order or in reverse name order
DiffNewSnapshots ==
    UNION {SnapshotsOfLen(n, Releases \X Versions, {<<>>}) : n \in 0..MaxPkgs}

DiffOldSnapshots ==
    LET full == UNION {SubSnapshots(s) :
                         s \in SnapshotsOfLen(MaxPkgs, Releases \X Versions, {<<>>})}
    IN full \cup {Reverse(s) : s \in full}

(* ------------------------------ Init ------------------------------------ *)
InitLoadIdle ==
    /\ tpath = <<>>
    /\ lpc = "idle"
    /\ loaderCalls = <<>>
    /\ loadResult = "none"

\* runPush's locals at position p, the flags at their defaults
InitRun(p) ==
    /\ force = FALSE
    /\ dryRun = TRUE
    /\ pc = p
    /\ changes = <<>>
    /\ bumped = <<>>
    /\ bad = <<>>
    /\ outdated = <<>>
    /\ bset = {}
    /\ lifted = EmptyGraph
    /\ order = <<>>
    /\ log = <<>>
    /\ calls = <<>>
    /\ published = <<>>
    /\ failedAt = 0
    /\ exitCode = -1
    /\ exitAt = "running"

\* runPush after both LoadState calls have succeeded (line 50)
Init ==
    /\ old \in OldSnapshots
    /\ new \in NewSnapshots
    /\ InitRun("diff")
    /\ InitLoadIdle

InitDiff ==
    /\ old \in DiffOldSnapshots
    /\ new \in DiffNewSnapshots
    /\ InitRun("diff")
    /\ InitLoadIdle

\* a call of LoadState on any tpath
InitLoad ==
    /\ old = <<>>
    /\ new = <<>>
    /\ InitRun("idle")
    /\ tpath \in TPaths
    /\ lpc = "call"
    /\ loaderCalls = <<>>
    /\ loadResult = "none"

(* ----------------------------- runPush ---------------------------------- *)
Names0(s, idxs) == [i \in 1..Len(idxs) |-> PkgAt(s, idxs[i]).Name]

Exit(code, at) ==
    /\ pc' = "exit"
    /\ exitCode' = code
    /\ exitAt' = at

\* lines 52-70: the diff and the classification loop
Diff ==
    /\ pc = "diff"
    /\ LET chs == Changed(old, new) IN
        /\ changes' = chs
        /\ bumped' = ListOf(chs, "bumped")
        /\ bad' = ListOf(chs, "bad")
        /\ outdated' = ListOf(chs, "outdated")
        /\ bset' = BsetOf(chs)
    /\ pc' = "anomaly"
    /\ UNCHANGED <<old, new, force, dryRun, lifted, order, log, calls, published,
                   failedAt, exitCode, exitAt, loadVars>>

\* lines 72-84: the flags are read, the anomaly list is printed, and
\* without --force the process exits
CheckAnomalies ==
    /\ pc = "anomaly"
    /\ \E f \in BOOLEAN, n \in BOOLEAN :
        /\ force' = f
        /\ dryRun' = n
        /\ IF bad # <<>>
           THEN /\ log' = Append(log, <<"bad", Names0(new, bad)>>)
                /\ IF ~f
                   THEN Exit(1, "anomaly")
                   ELSE /\ pc' = "outdated"
                        /\ UNCHANGED <<exitCode, exitAt>>
           ELSE /\ pc' = "outdated"
                /\ UNCHANGED <<log, exitCode, exitAt>>
    /\ UNCHANGED <<old, new, changes, bumped, bad, outdated, bset, lifted, order,
                   calls, published, failedAt, loadVars>>

\* lines 86-97: the downgrade list is printed; nothing to rebuild ends the
\* run with status 0
CheckBumped ==
    /\ pc = "outdated"
    /\ LET log1 == IF outdated # <<>>
                   THEN Append(log, <<"outdated", Names0(new, outdated)>>)
                   ELSE log
       IN IF Len(bumped) = 0
          THEN /\ log' = Append(log1, <<"nothing", <<>>>>)
               /\ Exit(0, "nothing")
          ELSE /\ log' = log1
               /\ pc' = "resolve"
               /\ UNCHANGED <<exitCode, exitAt>>
    /\ UNCHANGED <<old, new, force, dryRun, changes, bumped, bad, outdated, bset,
                   lifted, order, calls, published, failedAt, loadVars>>

\* lines 99-124: the unresolved packages are collected and printed, each
\* with its missing dependency names; without --force the process exits
CheckResolve ==
    /\ pc = "resolve"
    /\ LET unresolved == Unresolved(new, bumped) IN
        IF Len(unresolved) # 0
        THEN /\ log' = Append(log, <<"unresolved",
                    [i \in 1..Len(unresolved) |->
                        <<PkgAt(new, unresolved[i]).Name,
                          MissingDeps(new, PkgAt(new, unresolved[i]))>>]>>)
             /\ IF ~force
                THEN Exit(1, "unresolved")
                ELSE /\ pc' = "plan"
                     /\ UNCHANGED <<exitCode, exitAt>>
        ELSE /\ pc' = "plan"
             /\ UNCHANGED <<log, exitCode, exitAt>>
    /\ UNCHANGED <<old, new, force, dryRun, changes, bumped, bad, outdated, bset,
                   lifted, order, calls, published, failedAt, loadVars>>

\* AfterOrder without the dry-run return
AfterOrderNoDryRun(ord, log1) ==
    /\ order' = ord
    /\ log' = Append(log1, <<"order", Names0(new, ord)>>)
    /\ pc' = "publish"
    /\ UNCHANGED <<exitCode, exitAt>>

\* what runPush does once the sort has returned `ord` (lines 167-174)
AfterOrder(ord, log1) ==
    /\ order' = ord
    /\ log' = Append(log1, <<"order", Names0(new, ord)>>)
    /\ IF dryRun
       THEN Exit(0, "dryrun")
       ELSE /\ pc' = "publish"
            /\ UNCHANGED <<exitCode, exitAt>>

\* Plan that sorts the whole dependency graph instead of the lifted one
PlanNoLift ==
    /\ pc = "plan"
    /\ LET log1 == Append(log, <<"update", Names0(new, bumped)>>)
           g == DepGraph(new)
           sorts == TopologicalSort(g)
       IN /\ lifted' = g
          /\ IF sorts = {}
             THEN /\ log' = Append(log1, <<"cycles", ReportedCycles(new, g)>>)
                  /\ order' = order
                  /\ Exit(1, "order")
             ELSE \E ord \in sorts : AfterOrder(ord, log1)
    /\ UNCHANGED <<old, new, force, dryRun, changes, bumped, bad, outdated, bset,
                   calls, published, failedAt, loadVars>>

\* lines 126-174: the update list is printed, the dependency graph is
\* lifted onto bset and sorted; a failed sort prints the cycles and exits;
\* with --dry-run the run ends after the order is printed.  LiftGraph's
\* error (line 136) needs a position outside the graph, which bset never
\* holds.
Plan ==
    /\ pc = "plan"
    /\ LET log1 == Append(log, <<"update", Names0(new, bumped)>>)
           g == LiftGraph(DepGraph(new), bset)
           sorts == TopologicalSort(g)
       IN /\ lifted' = g
          /\ IF sorts = {}
             THEN /\ log' = Append(log1, <<"cycles", ReportedCycles(new, g)>>)
                  /\ order' = order
                  /\ Exit(1, "order")
             ELSE \E ord \in sorts : AfterOrder(ord, log1)
    /\ UNCHANGED <<old, new, force, dryRun, changes, bumped, bad, outdated, bset,
                   calls, published, failedAt, loadVars>>

\* lines 176-184, one iteration whose push.Publish call returns a job; the
\* last iteration ends runPush
PublishOk ==
    /\ pc = "publish"
    /\ Len(calls) < Len(order)
    /\ LET idx == order[Len(calls) + 1] IN
        /\ calls' = Append(calls, idx)
        /\ published' = Append(published, idx)
        /\ log' = Append(log, <<"published", <<PkgAt(new, idx).Name>>>>)
    /\ IF Len(calls) + 1 = Len(order)
       THEN Exit(0, "done")
       ELSE UNCHANGED <<pc, exitCode, exitAt>>
    /\ UNCHANGED <<old, new, force, dryRun, changes, bumped, bad, outdated, bset,
                   lifted, order, failedAt, loadVars>>

\* PublishFail that logs the error and goes on with the next package
PublishFailGoesOn ==
    /\ pc = "publish"
    /\ Len(calls) < Len(order)
    /\ LET idx == order[Len(calls) + 1] IN
        /\ calls' = Append(calls, idx)
        /\ log' = Append(log, <<"publishfailed", <<PkgAt(new, idx).Name>>>>)
    /\ failedAt' = IF failedAt = 0 THEN Len(calls) + 1 ELSE failedAt
    /\ IF Len(calls) + 1 = Len(order)
       THEN Exit(1, "publish")
       ELSE UNCHANGED <<pc, exitCode, exitAt>>
    /\ UNCHANGED <<old, new, force, dryRun, changes, bumped, bad, outdated, bset,
                   lifted, order, published, loadVars>>

\* lines 176-182, one iteration whose push.Publish call returns an error
PublishFail ==
    /\ pc = "publish"
    /\ Len(calls) < Len(order)
    /\ LET idx == order[Len(calls) + 1] IN
        /\ calls' = Append(calls, idx)
        /\ log' = Append(log, <<"publishfailed", <<PkgAt(new, idx).Name>>>>)
    /\ failedAt' = Len(calls) + 1
    /\ Exit(1, "publish")
    /\ UNCHANGED <<old, new, force, dryRun, changes, bumped, bad, outdated, bset,
                   lifted, order, published, loadVars>>

Next ==
    \/ Diff
    \/ CheckAnomalies
    \/ CheckBumped
    \/ CheckResolve
    \/ Plan
    \/ PublishOk
    \/ PublishFail

Spec == Init /\ [][Next]_vars

NextDiff == Diff

SpecDiff == InitDiff /\ [][NextDiff]_vars

(* ---------------------------- LoadState --------------------------------- *)
\* LoadState(tpath).  An invalid tpath returns InvalidTPathError.  A valid
\* one is split again and splitted[1] (here splitted[2]) is evaluated as
\* the loader's argument: with a single field the index is out of range
\* and the Go runtime panics before any loader is called.  Otherwise the
\* selected loader runs and LoadState returns its state or its error.
LoadState ==
    /\ lpc = "call"
    /\ IF ~ValidTPath(tpath)
       THEN /\ loadResult' = "InvalidTPathError"
            /\ lpc' = "returned"
            /\ UNCHANGED loaderCalls
       ELSE LET splitted == Split(tpath) IN
            IF Len(splitted) < 2
            THEN /\ loadResult' = "none"
                 /\ lpc' = "panic"
                 /\ UNCHANGED loaderCalls
            ELSE /\ loaderCalls' =
                        Append(loaderCalls, <<LoaderOf(splitted[1]), splitted[2]>>)
                 /\ loadResult' \in {"state", "loaderror"}
                 /\ lpc' = "returned"
    /\ UNCHANGED <<tpath, pushVars>>

NextLoad == LoadState

SpecLoad == InitLoad /\ [][NextLoad]_vars

(* ======================= properties of push ============================= *)
\* the run has left the publish loop through a failed Publish call
PublishAborted == pc = "exit" /\ exitAt = "publish"

\* C1: Publish is called one package at a time in the computed build order
\* and at most once per package; the first failed call is the last call,
\* the run then ends with a non-zero exit, and the packages published
\* before it are exactly the ones the earlier calls returned a job for.
C1_PublishInOrderFailFast ==
    /\ IsPrefix(calls, order)
    /\ NoDup(calls)
    /\ failedAt = 0 => published = calls
    /\ failedAt # 0 =>
        /\ failedAt = Len(calls)
        /\ published = SubSeq(calls, 1, failedAt - 1)
        /\ PublishAborted
        /\ exitCode # 0
    /\ PublishAborted => failedAt # 0
    /\ calls # <<>> => pc \in {"publish", "exit"}

\* a run whose second Publish call failed after the first had succeeded
C1_Witness ==
    /\ PublishAborted
    /\ failedAt = 2
    /\ Len(order) = 2
    /\ published = <<order[1]>>

\* C2: with the dry-run flag set the plan is computed and reported and
\* Publish is never called, whatever the snapshots and the force flag.
C2_DryRunNeverPublishes ==
    dryRun =>
        /\ calls = <<>>
        /\ published = <<>>
        /\ pc # "publish"
        /\ exitAt \notin {"publish", "done"}
        /\ exitAt = "dryrun" =>
            /\ exitCode = 0
            /\ order # <<>>
            /\ log[Len(log)] = <<"order", Names0(new, order)>>

\* a forced dry run that reported an order of two packages and stopped
C2_Witness ==
    /\ dryRun
    /\ force
    /\ exitAt = "dryrun"
    /\ Len(order) = 2

(* ---- the inputs' own view of anomalies, dependencies and cycles -------- *)
\* the names of new's packages whose old namesake has the same release and
\* another version
AnomalyNames ==
    {new[i].Name : i \in {j \in 1..Len(new) :
        \E k \in 1..Len(old) : /\ old[k].Name = new[j].Name
                               /\ old[k].Release = new[j].Release
                               /\ old[k].Version # new[j].Version}}

NewNames == {new[i].Name : i \in 1..Len(new)}

\* the build dependency names of position n that new does not have
MissingOf(n) == {d \in Range(PkgAt(new, n).BuildDeps) : d \notin NewNames}

\* the rebuild candidates with a build dependency that new does not have
UnresolvedNames == {PkgAt(new, n).Name : n \in {m \in bset : MissingOf(m) # {}}}

\* position u declares position v as a build dependency
DependsOn(u, v) == PkgAt(new, v).Name \in Range(PkgAt(new, u).BuildDeps)

\* the rebuild candidates reachable from those of S along DependsOn
RECURSIVE ReachFrom(_)
ReachFrom(S) ==
    LET T == S \cup {v \in bset : \E u \in S : DependsOn(u, v)}
    IN IF T = S THEN S ELSE ReachFrom(T)

\* the rebuild candidates that lie on a dependency cycle among candidates
CycleNodes ==
    {n \in bset : n \in ReachFrom({v \in bset : DependsOn(n, v)})}

\* the rebuild candidates that depend on n and n on them, n included
Mutual(n) == {m \in bset : m \in ReachFrom({n}) /\ n \in ReachFrom({m})}

NamesOf(S) == {PkgAt(new, n).Name : n \in S}

PastAnomalyCheck == pc \in {"outdated", "resolve", "plan", "publish", "exit"}

PastResolveCheck ==
    \/ pc \in {"plan", "publish"}
    \/ pc = "exit" /\ exitAt \in {"unresolved", "order", "dryrun", "publish", "done"}

NothingPlanned == lifted = EmptyGraph /\ order = <<>> /\ calls = <<>>

\* the log entries before entry i are findings only
OnlyFindingsBefore(i) ==
    \A j \in 1..(i - 1) : log[j][1] \in {"bad", "outdated", "unresolved"}

\* C3: every anomaly and every rebuild candidate with an unresolved build
\* dependency is in the report printed before the decision on it; without
\* the force flag either finding ends the run with exit 1 before lifting,
\* ordering and publishing, and with the force flag the run never ends at
\* a finding.
C3_FindingsReportedThenDecided ==
    /\ (PastAnomalyCheck /\ AnomalyNames # {}) =>
        /\ log # <<>>
        /\ log[1][1] = "bad"
        /\ AnomalyNames \subseteq Range(log[1][2])
        /\ ~force => (pc = "exit" /\ exitAt = "anomaly" /\ exitCode = 1
                      /\ NothingPlanned)
    /\ (PastResolveCheck /\ UnresolvedNames # {}) =>
        /\ \E i \in 1..Len(log) :
            /\ log[i][1] = "unresolved"
            /\ OnlyFindingsBefore(i)
            /\ {e[1] : e \in Range(log[i][2])} = UnresolvedNames
            /\ \A e \in Range(log[i][2]) :
                 \E n \in bset : /\ PkgAt(new, n).Name = e[1]
                                 /\ Range(e[2]) = MissingOf(n)
        /\ ~force => (pc = "exit" /\ exitAt = "unresolved" /\ exitCode = 1
                      /\ NothingPlanned)
    /\ exitAt \in {"anomaly", "unresolved"} => (~force /\ exitCode = 1 /\ NothingPlanned)

\* a forced run that reported an anomaly and an unresolved dependency and
\* went on to compute an order
C3_Witness ==
    /\ force
    /\ AnomalyNames # {}
    /\ UnresolvedNames # {}
    /\ order # <<>>

\* the components printed by the cycle report, {} when none was printed
ReportedComponents ==
    UNION {log[i][2] : i \in {j \in 1..Len(log) : log[j][1] = "cycles"}}

CycleIsFatal ==
    /\ CycleNodes # {} =>
        /\ order = <<>>
        /\ calls = <<>>
        /\ pc # "publish"
        /\ pc = "exit" => exitCode = 1
    /\ lifted # EmptyGraph => (exitAt = "order" <=> CycleNodes # {})
    /\ exitAt = "order" => (exitCode = 1 /\ log[Len(log)][1] = "cycles")
    /\ \A c \in ReportedComponents : Cardinality(c) >= 2

\* C4 as claimed: a cycle among the rebuild candidates always ends the run
\* with exit 1 and nothing published, and the report then holds at least
\* one component of size >= 2, each reported component being the
\* participants of a cycle.
C4_CycleReportsComponent ==
    /\ CycleIsFatal
    /\ exitAt = "order" =>
        /\ ReportedComponents # {}
        /\ \A c \in ReportedComponents :
             \E n \in CycleNodes : c = NamesOf(Mutual(n))

\* C4 amended: as above, but the report holds exactly the components of
\* the cycles with two or more participants; a candidate that only
\* depends on itself fails the sort and is not reported.
C4_CycleFatalProperCyclesReported ==
    /\ CycleIsFatal
    /\ exitAt = "order" =>
        ReportedComponents =
            {NamesOf(Mutual(n)) : n \in {m \in CycleNodes : Cardinality(Mutual(m)) >= 2}}

\* a forced, non-dry run that failed on a cycle of two candidates
C4_Witness ==
    /\ exitAt = "order"
    /\ force
    /\ ~dryRun
    /\ Cardinality(CycleNodes) = 2
    /\ \E c \in ReportedComponents : Cardinality(c) = 2

\* the place of position n in the build order
PosIn(ord, n) == CHOOSE i \in 1..Len(ord) : ord[i] = n

\* C5: the lifted graph has exactly the rebuild set as nodes and exactly
\* the dependencies between two rebuild candidates as edges, and a computed
\* build order is a permutation of the rebuild set in which every
\* candidate comes after the candidates it depends on.
C5_OrderIsTopologicalOnRebuildSet ==
    /\ lifted # EmptyGraph =>
        /\ lifted.nodes = bset
        /\ lifted.edges = {e \in bset \X bset : DependsOn(e[1], e[2])}
    /\ order # <<>> =>
        /\ Range(order) = bset
        /\ Len(order) = Cardinality(bset)
        /\ \A u, v \in bset :
             DependsOn(u, v) => PosIn(order, v) < PosIn(order, u)

\* scenario D: position 0 depends on position 1, both are rebuilt
C5_Witness ==
    /\ bset = {0, 1}
    /\ DependsOn(0, 1)
    /\ order = <<1, 0>>

(* ================= properties of Changed and the lists ================== *)
\* position p of new has a namesake in old
HasOld(p) == \E k \in 1..Len(old) : old[k].Name = PkgAt(new, p).Name

OldPkg(p) == old[CHOOSE k \in 1..Len(old) : old[k].Name = PkgAt(new, p).Name]

Positions == 0..(Len(new) - 1)

\* the entries of changes for position p
DiffsAt(p) == {i \in 1..Len(changes) : changes[i].Idx = p}

\* how often position p is in a list
CountIn(list, p) == Cardinality({i \in 1..Len(list) : list[i] = p})

Diffed == pc # "diff"

\* C6: Changed returns Diffs at strictly increasing positions of new, at
\* most one per position, each carrying the new package's release and
\* version, and exactly one for every package of new with no namesake in
\* old.
C6_ChangedInNewOrder ==
    Diffed =>
        /\ \A i \in 1..Len(changes) :
            /\ changes[i].Idx \in Positions
            /\ changes[i].RelNum = PkgAt(new, changes[i].Idx).Release
            /\ changes[i].Ver = PkgAt(new, changes[i].Idx).Version
        /\ \A i, j \in 1..Len(changes) : i < j => changes[i].Idx < changes[j].Idx
        /\ \A p \in Positions : ~HasOld(p) => Cardinality(DiffsAt(p)) = 1

\* two Diffs, the first for a package that old has, the second for one it
\* has not
C6_Witness ==
    /\ Diffed
    /\ Len(changes) = 2
    /\ HasOld(changes[1].Idx)
    /\ ~HasOld(changes[2].Idx)

\* C7: a package of new with a namesake in old has no Diff exactly when
\* release and version are equal; otherwise its one Diff puts it in exactly
\* one list: bumped (and the rebuild set) when the release is higher, bad
\* when the release is equal and the version differs, outdated when the
\* release is lower.  Only Diffs with a higher release are in the rebuild
\* set.
C7_MatchedOutcomeExactlyOne ==
    Diffed =>
        /\ \A p \in Positions : HasOld(p) =>
            LET o == OldPkg(p)
                n == PkgAt(new, p)
                same == o.Release = n.Release /\ o.Version = n.Version
            IN /\ DiffsAt(p) = {} <=> same
               /\ Cardinality(DiffsAt(p)) <= 1
               /\ CountIn(bumped, p) = IF n.Release > o.Release THEN 1 ELSE 0
               /\ CountIn(bad, p) =
                    IF n.Release = o.Release /\ n.Version # o.Version THEN 1 ELSE 0
               /\ CountIn(outdated, p) = IF n.Release < o.Release THEN 1 ELSE 0
               /\ CountIn(bumped, p) + CountIn(bad, p) + CountIn(outdated, p)
                    = IF same THEN 0 ELSE 1
               /\ p \in bset <=> n.Release > o.Release
        /\ \A i \in 1..Len(changes) :
             changes[i].Idx \in bset <=> changes[i].RelNum > changes[i].OldRelNum
        /\ bset \subseteq {changes[i].Idx : i \in 1..Len(changes)}

\* an anomaly and a downgrade, both of packages that old has
C7_Witness ==
    /\ Diffed
    /\ Len(bad) = 1
    /\ Len(outdated) = 1
    /\ HasOld(bad[1])
    /\ HasOld(outdated[1])

\* C8 as claimed: every package of new with no namesake in old is in the
\* rebuild set and the bumped list, whatever its release and version, and
\* in neither the anomaly nor the downgrade list.
C8_NewPackageAlwaysRebuilt ==
    Diffed =>
        \A p \in Positions : ~HasOld(p) =>
            /\ p \in bset
            /\ CountIn(bumped, p) = 1
            /\ CountIn(bad, p) = 0
            /\ CountIn(outdated, p) = 0

(* ====================== properties of LoadState ========================= *)
Colons(tp) == Cardinality({i \in 1..Len(tp) : tp[i] = ":"})

\* the text before the first ":" (the whole text when there is none) and
\* the text after it
KindOf(tp) ==
    IF Colons(tp) = 0 THEN tp
    ELSE SubSeq(tp, 1, (CHOOSE k \in 1..Len(tp) :
                          tp[k] = ":" /\ \A j \in 1..(k - 1) : tp[j] # ":") - 1)

PathOf(tp) == SubSeq(tp, Len(KindOf(tp)) + 2, Len(tp))

IsKind(k) == k = <<"src">> \/ k = <<"bin">> \/ k = <<"repo">>

LoaderFor(k) ==
    CASE k = <<"src">> -> "LoadSource"
      [] k = <<"bin">> -> "LoadBinary"
      [] k = <<"repo">> -> "LoadEopkgRepo"

\* C9: a tpath with more than one ":" or with a kind other than src, bin,
\* repo makes LoadState return InvalidTPathError without calling a loader.
C9_InvalidTPathRejected ==
    (lpc # "call" /\ (Colons(tpath) > 1 \/ ~IsKind(KindOf(tpath)))) =>
        /\ lpc = "returned"
        /\ loadResult = "InvalidTPathError"
        /\ loaderCalls = <<>>

\* "src::" was rejected
C9_Witness ==
    /\ lpc = "returned"
    /\ tpath = <<"src", ":", ":">>
    /\ loadResult = "InvalidTPathError"

\* C10 as claimed: LoadState ends either with InvalidTPathError and no
\* loader call, or with exactly one call of the loader of the kind, on the
\* text after the ":", whose result it returns; a tpath ValidTPath accepts
\* always reaches its loader.
C10_LoadStateReturnsOrLoads ==
    lpc # "call" =>
        /\ lpc = "returned"
        /\ \/ loadResult = "InvalidTPathError" /\ loaderCalls = <<>>
           \/ /\ loadResult \in {"state", "loaderror"}
              /\ loaderCalls = <<<<LoaderFor(KindOf(tpath)), PathOf(tpath)>>>>
        /\ (IsKind(KindOf(tpath)) /\ Colons(tpath) <= 1) => Len(loaderCalls) = 1

====
